---- MODULE Spec2Model ----
(***************************************************************************)
(* Task scheduling and resource allocation core of the assistant:          *)
(*   intelligence/planning/resource_allocator.py  (ResourceAllocator)      *)
(*   intelligence/planning/task_scheduler.py      (TaskScheduler)          *)
(*   intelligence/planning/priority_manager.py    (PriorityManager)        *)
(* Quantities are whole units; wall-clock time is a natural-number clock   *)
(* `now` that only moves forward.  The factors of a priority are counted   *)
(* in hundredths and a priority score in ten-thousandths.                  *)
(***************************************************************************)
EXTENDS Integers, Sequences, FiniteSets, TLC

VARIABLES
  now,                  \* the wall clock read by time.time() / datetime.now()
  resources,            \* ResourceAllocator.resources: name -> Resource
  pending_requests,     \* ResourceAllocator.pending_requests: list of ResourceRequest
  allocated_resources,  \* ResourceAllocator.allocated_resources: ordered dict id -> requirements
  op,                   \* the name of the last public call made
  ret,                  \* the value that call returned
  granted,              \* the [id, req] granted during that call, in grant order
  held,                 \* id -> the requirements of its latest grant not yet released
  scen,                 \* how many calls so far follow Scenario (ScenOff once they stop)
  task_queue,           \* TaskScheduler.task_queue: entries in the order get_nowait() returns them
  registered_tasks,     \* TaskScheduler.registered_tasks: id -> task
  is_running,           \* TaskScheduler.is_running
  lock,                 \* the loop thread holding TaskScheduler.lock, or NoThread
  pc,                   \* each loop thread's position in _scheduler_loop
  loop_time,            \* each loop thread's local current_time
  pending_tasks,        \* each loop thread's local pending_tasks
  last_dispatch,        \* the last task handed to the worker pool, with its registered schedule time
  executor,             \* TaskScheduler.executor: the pool's work queue, its workers, the last future done
  task_dict,            \* the task dict handed to PriorityManager
  context,              \* the context dict handed to adjust_priority_based_on_context
  level,                \* what the last PriorityManager call returned or raised
  rlock,                \* the caller thread holding ResourceAllocator.lock, or NoThread
  callers               \* each caller thread's position in its ResourceAllocator call

avars == <<resources, pending_requests, allocated_resources, granted, held, scen>>
svars == <<task_queue, registered_tasks, is_running, lock, pc, loop_time, pending_tasks,
           last_dispatch, executor>>
pvars == <<task_dict, context, level>>
cvars == <<rlock, callers>>
vars == <<now, resources, pending_requests, allocated_resources, op, ret, granted, held, scen,
          task_queue, registered_tasks, is_running, lock, pc, loop_time, pending_tasks,
          last_dispatch, executor, task_dict, context, level, rlock, callers>>

(***************************************************************************)
(* Bounds of the model and the input sets the calls draw from.             *)
(***************************************************************************)
MaxTime == 1
MaxTotal == 2
MaxPending == 2
MaxAllocPending == 1
MaxSchedTime == 2
PastDepth == 1
MaxWorkers == 2
MaxBacklog == 1

Names == {"gpu", "cpu"}
Units == {"units", "mb"}
Amounts == -1..MaxTotal
None == <<>>
RequirementsOver(N) == UNION {[S -> Amounts] : S \in SUBSET N}
Strategies == {"balanced", "priority", "first_come"}

Max(a, b) == IF a >= b THEN a ELSE b

(***************************************************************************)
(* Resource                                                                *)
(***************************************************************************)
Resource(name, total, allocated, unit) ==
  [name |-> name, total |-> total, allocated |-> allocated, unit |-> unit]

available(r) == Max(0, r.total - r.allocated)

\* Mutants of can_allocate: the bound taken from total, and a strict bound.
can_allocate_upto_total(r, amount) == 0 <= amount /\ amount <= r.total

can_allocate_strict(r, amount) == 0 <= amount /\ amount < available(r)

can_allocate(r, amount) == 0 <= amount /\ amount <= available(r)

allocate(r, amount) ==
  IF ~can_allocate(r, amount) THEN r ELSE [r EXCEPT !.allocated = @ + amount]

\* Mutant of release: the guard off by one.
release_off_by_one(r, amount) ==
  IF amount < 0 \/ amount >= r.allocated THEN r ELSE [r EXCEPT !.allocated = @ - amount]

release(r, amount) ==
  IF amount < 0 \/ amount > r.allocated THEN r ELSE [r EXCEPT !.allocated = @ - amount]

ResourceRequest(request_id, requirements, priority, timeout, t) ==
  [id |-> request_id, requirements |-> requirements, priority |-> priority,
   timeout |-> timeout, timestamp |-> t]

(***************************************************************************)
(* The ordered dict allocated_resources: a sequence of [id, req] whose ids *)
(* are distinct; assigning to a present key keeps its position.            *)
(***************************************************************************)
HasKey(tbl, id) == \E i \in 1..Len(tbl) : tbl[i].id = id

Get(tbl, id) == tbl[CHOOSE i \in 1..Len(tbl) : tbl[i].id = id].req

Put(tbl, id, req) ==
  IF HasKey(tbl, id)
  THEN [i \in 1..Len(tbl) |-> IF tbl[i].id = id THEN [id |-> id, req |-> req] ELSE tbl[i]]
  ELSE Append(tbl, [id |-> id, req |-> req])

\* Mutant of Del: the entry is never deleted.
Del_forgotten(tbl, id) == tbl

Del(tbl, id) == SelectSeq(tbl, LAMBDA e : e.id # id)

Keys(tbl) == [i \in 1..Len(tbl) |-> tbl[i].id]

(***************************************************************************)
(* ResourceAllocator helpers                                               *)
(***************************************************************************)
\* Mutant of _validate_request: the amount is not looked at.
_validate_request_names_only(res, requirements) ==
  \A name \in DOMAIN requirements : name \in DOMAIN res

_validate_request(res, requirements) ==
  \A name \in DOMAIN requirements :
    name \in DOMAIN res /\ ~(requirements[name] <= 0)

\* Mutant of _check_availability: one available resource is enough.
_check_availability_any(res, requirements) ==
  \E name \in DOMAIN requirements : can_allocate(res[name], requirements[name])

_check_availability(res, requirements) ==
  \A name \in DOMAIN requirements : can_allocate(res[name], requirements[name])

\* _allocate_resources: the pair (resources, allocated_resources) after it.
_allocate_resources(res, tbl, request_id, requirements) ==
  [res |-> [name \in DOMAIN res |->
              IF name \in DOMAIN requirements
              THEN allocate(res[name], requirements[name])
              ELSE res[name]],
   tbl |-> Put(tbl, request_id, requirements)]

\* Mutant of PriorityTimeBefore: the priority not negated.
PriorityTimeBefore_ascending(a, b) ==
  \/ a.priority < b.priority
  \/ a.priority = b.priority /\ a.timestamp < b.timestamp

\* key=lambda x: (-x.priority, x.timestamp)
PriorityTimeBefore(a, b) ==
  \/ -a.priority < -b.priority
  \/ a.priority = b.priority /\ a.timestamp < b.timestamp

\* key=lambda x: -x.priority
PriorityBefore(a, b) == -a.priority < -b.priority

\* list.sort(key=...) is stable: each element is inserted after its equals.
KeyBefore(key, a, b) ==
  IF key = "priority_time" THEN PriorityTimeBefore(a, b) ELSE PriorityBefore(a, b)

RECURSIVE InsertSorted(_, _, _)
InsertSorted(s, e, key) ==
  IF s = <<>> THEN <<e>>
  ELSE IF KeyBefore(key, e, Head(s)) THEN <<e>> \o s
  ELSE <<Head(s)>> \o InsertSorted(Tail(s), e, key)

RECURSIVE StableSort(_, _)
StableSort(s, key) ==
  IF s = <<>> THEN <<>>
  ELSE InsertSorted(StableSort(SubSeq(s, 1, Len(s) - 1), key), s[Len(s)], key)

\* The walk shared by _process_pending_requests and the optimizers: each
\* request in list order is granted iff available when it is reached.
RECURSIVE Walk(_, _, _)
Walk(s, res, tbl) ==
  IF s = <<>> THEN [res |-> res, tbl |-> tbl, flags |-> <<>>]
  ELSE LET request == Head(s)
           ok == _check_availability(res, request.requirements)
           a == _allocate_resources(res, tbl, request.id, request.requirements)
           rest == IF ok THEN Walk(Tail(s), a.res, a.tbl) ELSE Walk(Tail(s), res, tbl)
       IN [res |-> rest.res, tbl |-> rest.tbl, flags |-> <<ok>> \o rest.flags]

Flagged(s, flags, b) ==
  LET idx == {i \in 1..Len(s) : flags[i] = b}
      RECURSIVE Pick(_)
      Pick(i) == IF i > Len(s) THEN <<>>
                 ELSE IF i \in idx THEN <<s[i]>> \o Pick(i + 1) ELSE Pick(i + 1)
  IN Pick(1)

Grant(request_id, requirements) == [id |-> request_id, req |-> requirements]

Grants(s) == [i \in 1..Len(s) |-> Grant(s[i].id, s[i].requirements)]

WalkResult(s, res, tbl) ==
  LET w == Walk(s, res, tbl)
  IN [res |-> w.res, tbl |-> w.tbl,
      pend |-> Flagged(s, w.flags, FALSE),
      granted |-> Grants(Flagged(s, w.flags, TRUE))]

\* Mutant of Unexpired: a request is still live at the instant its timeout ends.
Unexpired_at_deadline(req, current_time) ==
  req.timeout = None \/ (current_time - req.timestamp) <= req.timeout[1]

Unexpired(req, current_time) ==
  req.timeout = None \/ (current_time - req.timestamp) < req.timeout[1]

\* Mutant of _process_pending_requests: the pass grants nothing.
_process_pending_requests_idle(res, tbl, pend, current_time) ==
  [res |-> res, tbl |-> tbl, pend |-> pend, granted |-> <<>>]

_process_pending_requests(res, tbl, pend, current_time) ==
  LET live == SelectSeq(pend, LAMBDA req : Unexpired(req, current_time))
      sorted == StableSort(live, "priority_time")
  IN WalkResult(sorted, res, tbl)

\* The body of release_resources under the lock.
ReleaseAll(res, names_req) ==
  [name \in DOMAIN res |->
     IF name \in DOMAIN names_req THEN release(res[name], names_req[name]) ELSE res[name]]

release_body(res, tbl, pend, request_id, current_time) ==
  IF ~HasKey(tbl, request_id)
  THEN [ok |-> FALSE, res |-> res, tbl |-> tbl, pend |-> pend, granted |-> <<>>]
  ELSE LET freed == ReleaseAll(res, Get(tbl, request_id))
           p == _process_pending_requests(freed, Del(tbl, request_id), pend, current_time)
       IN [ok |-> TRUE, res |-> p.res, tbl |-> p.tbl, pend |-> p.pend, granted |-> p.granted]

(***************************************************************************)
(* The scenario of the specification's testable properties, as calls.      *)
(***************************************************************************)
Call(name, args) == [op |-> name, args |-> args]

GpuOnly(n) == [name \in {"gpu"} |-> n]

Scenario ==
  << Call("register_resource", <<"gpu", 2, "units">>),
     Call("request_resources", <<"A", GpuOnly(1), 5, None>>),
     Call("request_resources", <<"B", GpuOnly(2), 10, None>>),
     Call("release_resources", <<"A">>),
     Call("request_resources", <<"C", GpuOnly(1), 1, None>>),
     Call("release_resources", <<"C">>) >>

ScenOff == Len(Scenario) + 1

Follow(c) == IF scen < Len(Scenario) /\ c = Scenario[scen + 1] THEN scen + 1 ELSE ScenOff

\* held after a call: a successful release(id) drops id, every grant sets its id.
RECURSIVE Record(_, _)
Record(h, g) ==
  IF g = <<>> THEN h
  ELSE Record([i \in DOMAIN h \cup {Head(g).id} |->
                 IF i = Head(g).id THEN Head(g).req ELSE h[i]], Tail(g))

Drop(h, id) == [i \in DOMAIN h \ {id} |-> h[i]]

(***************************************************************************)
(* Initial state: ResourceAllocator.__init__ and TaskScheduler.__init__    *)
(***************************************************************************)
LoopThreads == {1, 2}
NoThread == 0
CallerThreads == {1, 2}

\* The allocator's dicts and list together, and a caller thread outside a call.
Shared(res, tbl, pend) == [res |-> res, tbl |-> tbl, pend |-> pend]
Idle ==
  [pc |-> "idle", call |-> [op |-> "none", args |-> <<>>], seen |-> Shared(<<>>, <<>>, <<>>),
   valid |-> FALSE, fits |-> FALSE]
Workers == 1..MaxWorkers

InitPlanning ==
  /\ now = 0
  /\ resources = <<>>
  /\ pending_requests = <<>>
  /\ allocated_resources = <<>>
  /\ op = "init"
  /\ ret = TRUE
  /\ granted = <<>>
  /\ held = <<>>
  /\ scen = 0
  /\ task_queue = <<>>
  /\ registered_tasks = <<>>
  /\ is_running = FALSE
  /\ lock = NoThread
  /\ pc = [t \in LoopThreads |-> "dead"]
  /\ loop_time = [t \in LoopThreads |-> 0]
  /\ pending_tasks = [t \in LoopThreads |-> <<>>]
  /\ last_dispatch = <<>>
  /\ executor = [queue |-> <<>>, workers |-> [w \in Workers |-> None], done |-> None]
  /\ rlock = NoThread
  /\ callers = [t \in CallerThreads |-> Idle]

\* No PriorityManager call has been made: it keeps no state of its own.
Init ==
  /\ InitPlanning
  /\ task_dict = None
  /\ context = None
  /\ level = None

Tick ==
  /\ now < MaxTime
  /\ now' = now + 1
  /\ UNCHANGED <<avars, svars, pvars, cvars, op, ret>>

(***************************************************************************)
(* ResourceAllocator public operations, each atomic under self.lock.       *)
(***************************************************************************)
Made(c, r, g, released) ==
  /\ op' = c.op
  /\ ret' = r
  /\ granted' = g
  /\ held' = Record(IF released THEN Drop(held, c.args[1]) ELSE held, g)
  /\ scen' = Follow(c)
  /\ UNCHANGED <<now, svars, pvars, cvars>>

register_resource(name, total, unit) ==
  /\ Made(Call("register_resource", <<name, total, unit>>),
          name \notin DOMAIN resources /\ ~(total <= 0), <<>>, FALSE)
  /\ resources' =
       IF name \in DOMAIN resources \/ total <= 0 THEN resources
       ELSE [n \in DOMAIN resources \cup {name} |->
               IF n = name THEN Resource(name, total, 0, unit) ELSE resources[n]]
  /\ UNCHANGED <<pending_requests, allocated_resources>>

request_resources(request_id, requirements, priority, timeout) ==
  LET c == Call("request_resources", <<request_id, requirements, priority, timeout>>)
  IN IF ~_validate_request(resources, requirements)
     THEN /\ Made(c, FALSE, <<>>, FALSE)
          /\ UNCHANGED <<resources, pending_requests, allocated_resources>>
     ELSE IF _check_availability(resources, requirements)
     THEN LET a == _allocate_resources(resources, allocated_resources,
                                       request_id, requirements)
          IN /\ Made(c, TRUE, <<Grant(request_id, requirements)>>, FALSE)
             /\ resources' = a.res
             /\ allocated_resources' = a.tbl
             /\ UNCHANGED pending_requests
     ELSE /\ Made(c, FALSE, <<>>, FALSE)
          /\ pending_requests' =
               Append(pending_requests,
                      ResourceRequest(request_id, requirements, priority, timeout, now))
          /\ UNCHANGED <<resources, allocated_resources>>

release_resources(request_id) ==
  LET r == release_body(resources, allocated_resources, pending_requests, request_id, now)
  IN /\ Made(Call("release_resources", <<request_id>>), r.ok, r.granted, r.ok)
     /\ resources' = r.res
     /\ allocated_resources' = r.tbl
     /\ pending_requests' = r.pend

_optimize_priority ==
  WalkResult(StableSort(pending_requests, "priority"), resources, allocated_resources)

_optimize_first_come ==
  WalkResult(pending_requests, resources, allocated_resources)

_optimize_balanced ==
  [res |-> resources, tbl |-> allocated_resources, pend |-> pending_requests,
   granted |-> <<>>]

optimize_allocation(strategy) ==
  LET o == CASE strategy = "balanced" -> _optimize_balanced
             [] strategy = "priority" -> _optimize_priority
             [] strategy = "first_come" -> _optimize_first_come
  IN /\ Made(Call("optimize_allocation", <<strategy>>), TRUE, o.granted, FALSE)
     /\ resources' = o.res
     /\ allocated_resources' = o.tbl
     /\ pending_requests' = o.pend

(***************************************************************************)
(* The same calls made by caller threads, step by step: a thread reaches    *)
(* `with self.lock`, enters when the lock is free, runs the body in two     *)
(* steps and leaves the lock as it returns.                                 *)
(***************************************************************************)
\* Mutant of lock_free: the lock lets every thread in.
lock_free_always(l) == TRUE

lock_free(l) == l = NoThread

\* What the call c does to the allocator when it runs alone at current_time.
request_body(res, tbl, pend, c, current_time) ==
  IF ~_validate_request(res, c.args[2])
  THEN [ok |-> FALSE, res |-> res, tbl |-> tbl, pend |-> pend, granted |-> <<>>]
  ELSE IF _check_availability(res, c.args[2])
  THEN LET a == _allocate_resources(res, tbl, c.args[1], c.args[2])
       IN [ok |-> TRUE, res |-> a.res, tbl |-> a.tbl, pend |-> pend,
           granted |-> <<Grant(c.args[1], c.args[2])>>]
  ELSE [ok |-> FALSE, res |-> res, tbl |-> tbl,
        pend |-> Append(pend, ResourceRequest(c.args[1], c.args[2], c.args[3], c.args[4],
                                              current_time)),
        granted |-> <<>>]

Alone(c, seen, current_time) ==
  IF c.op = "request_resources"
  THEN request_body(seen.res, seen.tbl, seen.pend, c, current_time)
  ELSE release_body(seen.res, seen.tbl, seen.pend, c.args[1], current_time)

Answered(c, r, g, released) ==
  /\ op' = c.op
  /\ ret' = r
  /\ granted' = g
  /\ held' = Record(IF released THEN Drop(held, c.args[1]) ELSE held, g)
  /\ scen' = Follow(c)
  /\ UNCHANGED <<now, svars, pvars>>

Quiet == UNCHANGED <<now, avars, svars, pvars, op, ret>>

\* The thread calls c and reaches `with self.lock`.
Invoke(t, c) ==
  /\ callers[t].pc = "idle"
  /\ callers' = [callers EXCEPT ![t] = [Idle EXCEPT !.pc = "waiting", !.call = c]]
  /\ UNCHANGED rlock
  /\ Quiet

Acquire(t) ==
  /\ callers[t].pc = "waiting"
  /\ lock_free(rlock)
  /\ rlock' = t
  /\ callers' = [callers EXCEPT ![t].pc = "locked",
                                ![t].seen = Shared(resources, allocated_resources,
                                                   pending_requests)]
  /\ Quiet

\* request_resources: _validate_request and _check_availability.
RequestCheck(t) ==
  /\ callers[t].pc = "locked"
  /\ callers[t].call.op = "request_resources"
  /\ callers' = [callers EXCEPT
       ![t].pc = "checked",
       ![t].valid = _validate_request(resources, callers[t].call.args[2]),
       ![t].fits = /\ _validate_request(resources, callers[t].call.args[2])
                   /\ _check_availability(resources, callers[t].call.args[2])]
  /\ UNCHANGED rlock
  /\ Quiet

\* request_resources: the allocation or the append, the return, the lock left.
RequestFinish(t) ==
  LET c == callers[t].call
  IN /\ callers[t].pc = "checked"
     /\ IF ~callers[t].valid
        THEN /\ Answered(c, FALSE, <<>>, FALSE)
             /\ UNCHANGED <<resources, pending_requests, allocated_resources>>
        ELSE IF callers[t].fits
        THEN LET a == _allocate_resources(resources, allocated_resources,
                                          c.args[1], c.args[2])
             IN /\ Answered(c, TRUE, <<Grant(c.args[1], c.args[2])>>, FALSE)
                /\ resources' = a.res
                /\ allocated_resources' = a.tbl
                /\ UNCHANGED pending_requests
        ELSE /\ Answered(c, FALSE, <<>>, FALSE)
             /\ pending_requests' =
                  Append(pending_requests,
                         ResourceRequest(c.args[1], c.args[2], c.args[3], c.args[4], now))
             /\ UNCHANGED <<resources, allocated_resources>>
     /\ rlock' = NoThread
     /\ callers' = [callers EXCEPT ![t] = Idle]

\* release_resources: the amounts go back and the entry is deleted.
ReleaseFree(t) ==
  LET request_id == callers[t].call.args[1]
  IN /\ callers[t].pc = "locked"
     /\ callers[t].call.op = "release_resources"
     /\ IF ~HasKey(allocated_resources, request_id)
        THEN /\ callers' = [callers EXCEPT ![t].pc = "freed", ![t].valid = FALSE]
             /\ UNCHANGED <<resources, allocated_resources>>
        ELSE /\ callers' = [callers EXCEPT ![t].pc = "freed", ![t].valid = TRUE]
             /\ resources' = ReleaseAll(resources, Get(allocated_resources, request_id))
             /\ allocated_resources' = Del(allocated_resources, request_id)
     /\ UNCHANGED <<rlock, now, svars, pvars, op, ret, pending_requests, granted, held, scen>>

\* release_resources: the reprocessing pass, the return, the lock left.
ReleaseFinish(t) ==
  LET c == callers[t].call
      p == _process_pending_requests(resources, allocated_resources, pending_requests, now)
  IN /\ callers[t].pc = "freed"
     /\ IF ~callers[t].valid
        THEN /\ Answered(c, FALSE, <<>>, FALSE)
             /\ UNCHANGED <<resources, pending_requests, allocated_resources>>
        ELSE /\ Answered(c, TRUE, p.granted, TRUE)
             /\ resources' = p.res
             /\ allocated_resources' = p.tbl
             /\ pending_requests' = p.pend
     /\ rlock' = NoThread
     /\ callers' = [callers EXCEPT ![t] = Idle]

\* shutdown: release every id of the snapshot list(allocated_resources.keys()),
\* each release running its own reprocessing pass, then clear the queue.
RECURSIVE ShutdownLoop(_, _, _, _, _, _, _)
ShutdownLoop(ids, res, tbl, pend, g, h, current_time) ==
  IF ids = <<>> THEN [res |-> res, tbl |-> tbl, pend |-> pend, granted |-> g, held |-> h]
  ELSE LET r == release_body(res, tbl, pend, Head(ids), current_time)
       IN ShutdownLoop(Tail(ids), r.res, r.tbl, r.pend, g \o r.granted,
                       Record(IF r.ok THEN Drop(h, Head(ids)) ELSE h, r.granted),
                       current_time)

allocator_shutdown ==
  LET s == ShutdownLoop(Keys(allocated_resources), resources, allocated_resources,
                        pending_requests, <<>>, held, now)
  IN /\ op' = "shutdown"
     /\ ret' = TRUE
     /\ granted' = s.granted
     /\ held' = s.held
     /\ scen' = ScenOff
     /\ resources' = s.res
     /\ allocated_resources' = s.tbl
     /\ pending_requests' = <<>>
     /\ UNCHANGED <<now, svars, pvars, cvars>>

(***************************************************************************)
(* TaskScheduler.  A task is the dict built by add_task; registered_tasks  *)
(* and the queue entry of an id refer to the same dict, and the only       *)
(* in-place change of a dict, in reschedule_task, rebinds every queue      *)
(* entry of that id to it, so tasks are kept by value.  Schedule times     *)
(* more than PastDepth before the clock's origin are kept as -PastDepth.   *)
(***************************************************************************)
TaskIds == {"t1", "t2"}

\* str comparison of the ids, as the queue's tuples compare them
IdRank == [t1 |-> 1, t2 |-> 2]

Task(task_id, task_func, schedule_time, priority, args, recurring, interval) ==
  [id |-> task_id, function |-> task_func, schedule_time |-> schedule_time,
   priority |-> priority, args |-> args, recurring |-> recurring, interval |-> interval]

\* datetime.timestamp(): seconds since the epoch, here the clock's own unit
timestamp(t) == t

Entry(priority, ts, task_id, task) ==
  [priority |-> priority, timestamp |-> ts, id |-> task_id, task |-> task]

\* tuple comparison (priority, timestamp, task_id, ...) of PriorityQueue
EntryBefore(a, b) ==
  \/ a.priority < b.priority
  \/ a.priority = b.priority /\ a.timestamp < b.timestamp
  \/ a.priority = b.priority /\ a.timestamp = b.timestamp /\ IdRank[a.id] < IdRank[b.id]

\* PriorityQueue.put
RECURSIVE put(_, _)
put(q, e) ==
  IF q = <<>> THEN <<e>>
  ELSE IF EntryBefore(e, Head(q)) THEN <<e>> \o q
  ELSE <<Head(q)>> \o put(Tail(q), e)

RECURSIVE put_all(_, _)
put_all(q, es) == IF es = <<>> THEN q ELSE put_all(put(q, Head(es)), Tail(es))

\* timedelta arithmetic on a schedule time
Later(t, interval) == Max(t + interval, -PastDepth)

\* task['recurring'] and task['interval']: None and timedelta(0) are false
Recurs(task) == task.recurring /\ task.interval # None /\ task.interval # <<0>>

\* Mutant of task_id_conflict: the check is skipped.
task_id_conflict_skipped(task_id) == FALSE

task_id_conflict(task_id) == task_id \in DOMAIN registered_tasks

LockFree == lock = NoThread

Did(name, r) == op' = name /\ ret' = r /\ UNCHANGED <<now, avars, pvars, cvars>>

add_task(task_id, task_func, schedule_time, priority, args, recurring, interval) ==
  /\ LockFree
  /\ IF task_id_conflict(task_id)
     THEN /\ Did("add_task", FALSE)
          /\ UNCHANGED svars
     ELSE LET task == Task(task_id, task_func, schedule_time, priority, args,
                           recurring, interval)
          IN /\ Did("add_task", TRUE)
             /\ task_queue' = put(task_queue,
                                  Entry(priority, timestamp(schedule_time), task_id, task))
             /\ registered_tasks' =
                  [i \in DOMAIN registered_tasks \cup {task_id} |->
                     IF i = task_id THEN task ELSE registered_tasks[i]]
             /\ UNCHANGED <<is_running, lock, pc, loop_time, pending_tasks, last_dispatch, executor>>

\* Mutant of unregistered: the registry keeps the task.
unregistered_kept(reg, task_id) == reg

\* del self.registered_tasks[task_id]
unregistered(reg, task_id) == [i \in DOMAIN reg \ {task_id} |-> reg[i]]

\* Mutant of without: the new queue is left empty.
without_anything(q, task_id) == <<>>

\* remove_task's new queue: every entry of another id, re-put in order.
without(q, task_id) == put_all(<<>>, SelectSeq(q, LAMBDA e : e.id # task_id))

remove_task(task_id) ==
  /\ LockFree
  /\ IF task_id \notin DOMAIN registered_tasks
     THEN /\ Did("remove_task", FALSE)
          /\ UNCHANGED svars
     ELSE /\ Did("remove_task", TRUE)
          /\ registered_tasks' = unregistered(registered_tasks, task_id)
          /\ task_queue' = without(task_queue, task_id)
          /\ UNCHANGED <<is_running, lock, pc, loop_time, pending_tasks, last_dispatch, executor>>

\* Mutant of rescheduled_entry: the queue keeps the task as it was.
rescheduled_entry_stale(e, task, new_time) ==
  Entry(e.priority, timestamp(new_time), e.id, e.task)

rescheduled_entry(e, task, new_time) ==
  Entry(e.priority, timestamp(new_time), e.id, task)

reschedule_task(task_id, new_time) ==
  /\ LockFree
  /\ IF task_id \notin DOMAIN registered_tasks
     THEN /\ Did("reschedule_task", FALSE)
          /\ UNCHANGED svars
     ELSE LET task == [registered_tasks[task_id] EXCEPT !.schedule_time = new_time]
              moved == [i \in 1..Len(task_queue) |->
                          IF task_queue[i].id = task_id
                          THEN rescheduled_entry(task_queue[i], task, new_time)
                          ELSE task_queue[i]]
          IN /\ Did("reschedule_task", TRUE)
             /\ registered_tasks' = [registered_tasks EXCEPT ![task_id] = task]
             /\ task_queue' = put_all(<<>>, moved)
             /\ UNCHANGED <<is_running, lock, pc, loop_time, pending_tasks, last_dispatch, executor>>

\* The dict get_pending_tasks builds for an entry.
Summary(e) ==
  [id |-> e.id, schedule_time |-> e.task.schedule_time, priority |-> e.task.priority,
   recurring |-> e.task.recurring]

\* The entries in the order get_nowait() returns them, those of a registered
\* id summarised.
summaries(q, reg) ==
  LET actual == SelectSeq(q, LAMBDA e : e.id \in DOMAIN reg)
  IN [i \in 1..Len(actual) |-> Summary(actual[i])]

\* Mutant of restored: the entries are put back on top of the old queue.
restored_doubled(q) == put_all(q, q)

\* Mutant of restored: the temporary queue is dropped.
restored_empty(q) == <<>>

\* temp_queue: every entry taken out is put into it, and it becomes task_queue.
restored(q) == put_all(<<>>, q)

get_pending_tasks ==
  /\ LockFree
  /\ Did("get_pending_tasks", summaries(task_queue, registered_tasks))
  /\ task_queue' = restored(task_queue)
  /\ UNCHANGED <<registered_tasks, is_running, lock, pc, loop_time, pending_tasks,
                 last_dispatch, executor>>

\* start(): a second call while running only logs; otherwise thread t is launched.
start(t) ==
  /\ Did("start", TRUE)
  /\ IF is_running
     THEN UNCHANGED svars
     ELSE /\ pc[t] = "dead"
          /\ is_running' = TRUE
          /\ pc' = [pc EXCEPT ![t] = "top"]
          /\ UNCHANGED <<task_queue, registered_tasks, lock, loop_time, pending_tasks,
                         last_dispatch, executor>>

\* start() as other threads see it: the test of is_running (line 126) and the
\* assignment (line 130) are separate steps, made without the lock.  A caller
\* that found the flag clear is about to launch thread t: pc[t] = "new".
start_check(t) ==
  /\ pc[t] = "dead"
  /\ Did("start", TRUE)
  /\ IF is_running
     THEN UNCHANGED svars
     ELSE /\ pc' = [pc EXCEPT ![t] = "new"]
          /\ UNCHANGED <<task_queue, registered_tasks, is_running, lock, loop_time,
                         pending_tasks, last_dispatch, executor>>

start_launch(t) ==
  /\ pc[t] = "new"
  /\ Did("start", TRUE)
  /\ is_running' = TRUE
  /\ pc' = [pc EXCEPT ![t] = "top"]
  /\ UNCHANGED <<task_queue, registered_tasks, lock, loop_time, pending_tasks,
                 last_dispatch, executor>>

\* stop(): the flag is cleared; the join waits a bounded time and returns.
stop ==
  /\ Did("stop", TRUE)
  /\ is_running' = FALSE
  /\ UNCHANGED <<task_queue, registered_tasks, lock, pc, loop_time, pending_tasks,
                 last_dispatch, executor>>

\* while self.is_running: current_time = datetime.now()
LoopSample(t) ==
  /\ pc[t] = "top"
  /\ IF is_running
     THEN /\ pc' = [pc EXCEPT ![t] = "sampled"]
          /\ loop_time' = [loop_time EXCEPT ![t] = now]
     ELSE /\ pc' = [pc EXCEPT ![t] = "dead"]
          /\ UNCHANGED loop_time
  /\ UNCHANGED <<now, avars, pvars, cvars, op, ret, task_queue, registered_tasks, is_running, lock,
                 pending_tasks, last_dispatch, executor>>

\* Mutant of is_due: a task whose schedule time is the sampled time waits.
is_due_late(t, task) == loop_time[t] > task.schedule_time

\* Mutant of is_due: the schedule time is compared one tick early.
is_due_early(t, task) == loop_time[t] + 1 >= task.schedule_time

is_due(t, task) == loop_time[t] >= task.schedule_time

\* _execute_task: the handler goes to the worker pool; `turn` is the parity of
\* the number of submissions so far, so that two submissions in a row differ.
Dispatched(task) ==
  [id |-> task.id, due |-> registered_tasks[task.id].schedule_time,
   turn |-> IF last_dispatch = <<>> THEN 0 ELSE 1 - last_dispatch[1].turn]

\* executor.submit: the call is queued and submit returns at once.  The pool's
\* queue has no bound; the model keeps its first MaxBacklog calls.
submit(ex, task_id) ==
  [ex EXCEPT !.queue = IF Len(@) < MaxBacklog THEN Append(@, task_id) ELSE @]

\* One turn of `while not self.task_queue.empty()` under the lock, or, the
\* queue being empty, the return of pending_tasks and the release of the lock.
LoopStep(t) ==
  /\ \/ pc[t] = "sampled" /\ LockFree
     \/ pc[t] = "pass" /\ lock = t
  /\ IF task_queue = <<>>
     THEN /\ task_queue' = put_all(task_queue, pending_tasks[t])
          /\ pending_tasks' = [pending_tasks EXCEPT ![t] = <<>>]
          /\ lock' = NoThread
          /\ pc' = [pc EXCEPT ![t] = "top"]
          /\ UNCHANGED <<registered_tasks, last_dispatch, executor>>
     ELSE LET e == Head(task_queue)
              task == e.task
              new_schedule_time == Later(task.schedule_time, task.interval[1])
              new_task == [task EXCEPT !.schedule_time = new_schedule_time]
          IN /\ lock' = t
             /\ pc' = [pc EXCEPT ![t] = "pass"]
             /\ IF e.id \notin DOMAIN registered_tasks
                THEN /\ task_queue' = Tail(task_queue)
                     /\ UNCHANGED <<registered_tasks, pending_tasks, last_dispatch, executor>>
                ELSE IF is_due(t, task)
                THEN /\ last_dispatch' = <<Dispatched(task)>>
                     /\ executor' = submit(executor, task.id)
                     /\ IF Recurs(task)
                        THEN /\ registered_tasks' = [registered_tasks EXCEPT ![e.id] = new_task]
                             /\ task_queue' =
                                  put(Tail(task_queue),
                                      Entry(e.priority, timestamp(new_schedule_time),
                                            e.id, new_task))
                        ELSE /\ task_queue' = Tail(task_queue)
                             /\ UNCHANGED registered_tasks
                     /\ UNCHANGED pending_tasks
                ELSE /\ task_queue' = Tail(task_queue)
                     /\ pending_tasks' = [pending_tasks EXCEPT ![t] = Append(@, e)]
                     /\ UNCHANGED <<registered_tasks, last_dispatch, executor>>
  /\ UNCHANGED <<now, avars, pvars, cvars, op, ret, is_running, loop_time>>

SchedTick ==
  /\ now < MaxSchedTime
  /\ now' = now + 1
  /\ UNCHANGED <<avars, svars, pvars, cvars, op, ret>>

\* What a handler can do once a worker runs it; a handler that never returns
\* is a worker that takes no WorkerDone step.
Outcomes == {"returned", "raised"}

\* A pool worker takes the next call from the work queue and runs the handler.
WorkerTake(w) ==
  /\ executor.workers[w] = None
  /\ executor.queue # <<>>
  /\ executor' = [executor EXCEPT !.workers[w] = <<Head(executor.queue)>>,
                                  !.queue = Tail(@)]
  /\ UNCHANGED <<now, avars, pvars, cvars, op, ret, task_queue, registered_tasks, is_running, lock, pc,
                 loop_time, pending_tasks, last_dispatch>>

\* The handler returns or raises: the future is done, _task_done_callback logs
\* the result or the exception, and the worker is free again.
WorkerDone(w, outcome) ==
  /\ executor.workers[w] # None
  /\ executor' = [executor EXCEPT !.workers[w] = None,
                                  !.done = <<[id |-> executor.workers[w][1],
                                              outcome |-> outcome]>>]
  /\ UNCHANGED <<now, avars, pvars, cvars, op, ret, task_queue, registered_tasks, is_running, lock, pc,
                 loop_time, pending_tasks, last_dispatch>>

(***************************************************************************)
(* PriorityManager.  A task is the dict calculate_priority reads with      *)
(* task.get(key, 0): a key that is missing reads as 0.  The value under    *)
(* 'deadline' is a number, an ISO date string so many days ahead, or None; *)
(* the other values are numbers.  A float x is the integer 100 * x, a      *)
(* score s the integer 10000 * s.                                          *)
(***************************************************************************)
PriorityLevel == [NONE |-> 0, LOW |-> 1, MEDIUM |-> 2, HIGH |-> 3, CRITICAL |-> 4]

factor_weights ==
  [deadline |-> 30, importance |-> 25, effort |-> 20, dependencies |-> 15,
   user_preference |-> 10]

Float(x) == [kind |-> "float", value |-> x, days |-> 0]
IsoDate(days) == [kind |-> "str", value |-> 0, days |-> days]
NoneValue == [kind |-> "None", value |-> 0, days |-> 0]

Min(a, b) == IF a <= b THEN a ELSE b

\* Mutant of _score_to_level: the thresholds are strict.
_score_to_level_strict(score) ==
  IF score > 8000 THEN PriorityLevel.CRITICAL
  ELSE IF score > 6000 THEN PriorityLevel.HIGH
  ELSE IF score > 4000 THEN PriorityLevel.MEDIUM
  ELSE IF score > 2000 THEN PriorityLevel.LOW
  ELSE PriorityLevel.NONE

_score_to_level(score) ==
  IF score >= 8000 THEN PriorityLevel.CRITICAL
  ELSE IF score >= 6000 THEN PriorityLevel.HIGH
  ELSE IF score >= 4000 THEN PriorityLevel.MEDIUM
  ELSE IF score >= 2000 THEN PriorityLevel.LOW
  ELSE PriorityLevel.NONE

\* The bonus is for a deadline given as a string; a number gets none.
_rule_urgent_deadline(t) ==
  IF t.deadline.kind = "str"
  THEN IF t.deadline.days <= 1 THEN 3000
       ELSE IF t.deadline.days <= 3 THEN 1500
       ELSE 0
  ELSE 0

\* Mutant of _rule_high_importance: the bonus goes to the tasks below 0.8.
_rule_high_importance_below(t) == IF t.importance < 80 THEN 2500 ELSE 0

_rule_high_importance(t) == IF t.importance >= 80 THEN 2500 ELSE 0

_rule_blocked_tasks(t) ==
  IF t.blocking_count > 0 THEN 2000 * Min(t.blocking_count, 5) ELSE 0

_rule_user_preference(t) == t.user_preference * 15

\* factor_value * weight raises TypeError for a string and for None.
Multiplies(t) == t.deadline.kind = "float"

WeightedFactors(t) ==
  t.deadline.value * factor_weights.deadline
  + t.importance * factor_weights.importance
  + t.effort * factor_weights.effort
  + t.dependencies * factor_weights.dependencies
  + t.user_preference * factor_weights.user_preference

priority_score(t) ==
  WeightedFactors(t) + _rule_urgent_deadline(t) + _rule_high_importance(t)
  + _rule_blocked_tasks(t) + _rule_user_preference(t)

\* The except branch answers MEDIUM for whatever the try block raised.
calculate_priority(t) ==
  IF ~Multiplies(t) THEN PriorityLevel.MEDIUM ELSE _score_to_level(priority_score(t))

\* What a PriorityManager call gives back: a level, or the exception it let out.
Returned(value) == [raised |-> FALSE, value |-> value]
AttributeError == [raised |-> TRUE, value |-> -1]

Hour(current_time) == current_time[1]

\* `current_time and hour >= 22 or hour <= 6`: `and` binds tighter than `or`,
\* and a missing current_time has no hour.
OffHours(current_time) == Hour(current_time) >= 22 \/ Hour(current_time) <= 6

\* Mutant of adjust_priority_based_on_context: the low-resource step goes up.
adjust_priority_based_on_context_raising(t, c) ==
  LET base_priority == calculate_priority(t)
  IN IF c.current_time = None THEN AttributeError
     ELSE IF OffHours(c.current_time) /\ base_priority < PriorityLevel.CRITICAL
          THEN Returned(Max(base_priority - 1, 0))
     ELSE IF c.resource_availability < 30
          THEN Returned(Min(base_priority + 1, PriorityLevel.CRITICAL))
     ELSE Returned(base_priority)

adjust_priority_based_on_context(t, c) ==
  LET base_priority == calculate_priority(t)
  IN IF c.current_time = None THEN AttributeError
     ELSE IF OffHours(c.current_time) /\ base_priority < PriorityLevel.CRITICAL
          THEN Returned(Max(base_priority - 1, 0))
     ELSE IF c.resource_availability < 30
          THEN Returned(Max(base_priority - 1, 0))
     ELSE Returned(base_priority)

\* The two public calls, made on the task and the context at hand.
PriorityCall(name, result) ==
  /\ op' = name
  /\ level' = result
  /\ UNCHANGED <<now, avars, svars, cvars, ret, task_dict, context>>

Calculate == PriorityCall("calculate_priority", Returned(calculate_priority(task_dict)))

Adjust ==
  PriorityCall("adjust_priority_based_on_context",
               adjust_priority_based_on_context(task_dict, context))

(***************************************************************************)
(* Specifications: the calls any client may make, over small input sets.   *)
(* A request that would be queued is made only while the queue is short.   *)
(***************************************************************************)
Queues(requirements) ==
  _validate_request(resources, requirements) /\ ~_check_availability(resources, requirements)

Room(requirements, cap) == Queues(requirements) => Len(pending_requests) < cap

\* Both resources, multi-resource requests, every strategy and shutdown.
AllocIds == {"A", "B"}

AllocRequirements ==
  {r \in RequirementsOver(Names) : "cpu" \in DOMAIN r => r["cpu"] <= 1}

NextAlloc ==
  \/ \E total \in 0..MaxTotal, unit \in Units : register_resource("gpu", total, unit)
  \/ \E total \in -1..1 : register_resource("cpu", total, "units")
  \/ \E id \in AllocIds, req \in AllocRequirements :
       Room(req, MaxAllocPending) /\ request_resources(id, req, 0, None)
  \/ \E id \in AllocIds : release_resources(id)
  \/ \E s \in Strategies : optimize_allocation(s)
  \/ allocator_shutdown

SpecAlloc == Init /\ [][NextAlloc]_vars

\* One resource, the ids and priorities of Scenario.
QueueIds == {"A", "B", "C"}

ScenarioPriority == [A |-> 5, B |-> 10, C |-> 1]

NextScenario ==
  \/ \E total \in 1..MaxTotal : register_resource("gpu", total, "units")
  \/ \E id \in QueueIds, n \in 1..MaxTotal :
       /\ Room(GpuOnly(n), MaxPending)
       /\ request_resources(id, GpuOnly(n), ScenarioPriority[id], None)
  \/ \E id \in QueueIds : release_resources(id)

SpecScenario == Init /\ [][NextScenario]_vars

\* One resource, requests of two priorities queued at different times.
OrderPriorities == {1, 2}

NextOrder ==
  \/ Tick
  \/ \E total \in 1..MaxTotal : register_resource("gpu", total, "units")
  \/ \E id \in QueueIds, n \in 1..MaxTotal, p \in OrderPriorities :
       Room(GpuOnly(n), MaxPending) /\ request_resources(id, GpuOnly(n), p, None)
  \/ \E id \in QueueIds : release_resources(id)

SpecOrder == Init /\ [][NextOrder]_vars

\* One resource, requests of two priorities with and without a timeout, queued
\* at different times, releases and every optimization strategy.
Timeouts == {None, <<1>>}

NextExpiry ==
  \/ Tick
  \/ \E total \in 1..MaxTotal : register_resource("gpu", total, "units")
  \/ \E id \in QueueIds, n \in 1..MaxTotal, p \in OrderPriorities, timeout \in Timeouts :
       Room(GpuOnly(n), MaxPending) /\ request_resources(id, GpuOnly(n), p, timeout)
  \/ \E id \in QueueIds : release_resources(id)
  \/ \E s \in Strategies : optimize_allocation(s)

SpecExpiry == Init /\ [][NextExpiry]_vars

\* The scheduler with one loop thread: a one-shot task and a recurring one.
OneShot(task_id, at) == add_task(task_id, "f", at, 1, "x", FALSE, None)

Every(task_id, at, interval) == add_task(task_id, "g", at, 2, "y", TRUE, <<interval>>)

NextSched ==
  \/ SchedTick
  \/ \E id \in TaskIds, at \in 0..MaxSchedTime : OneShot(id, at)
  \/ \E id \in TaskIds, at \in 0..MaxSchedTime : Every(id, at, 1)
  \/ \E id \in TaskIds : remove_task(id)
  \/ \E id \in TaskIds, at \in 0..MaxSchedTime : reschedule_task(id, at)
  \/ start(1)
  \/ stop
  \/ LoopSample(1)
  \/ LoopStep(1)

SpecSched == Init /\ [][NextSched]_vars

\* The scheduler started at some time and kept running, with a recurring task
\* whose interval may point backwards; the loop thread and the clock are
\* scheduled fairly.
NextLive ==
  \/ SchedTick
  \/ \E id \in TaskIds, at \in 0..MaxSchedTime : OneShot(id, at)
  \/ \E id \in TaskIds, at \in 0..MaxSchedTime, interval \in {-1, 1} : Every(id, at, interval)
  \/ \E id \in TaskIds : remove_task(id)
  \/ start(1)
  \/ LoopSample(1)
  \/ LoopStep(1)

SpecLive ==
  /\ Init
  /\ [][NextLive]_vars
  /\ WF_vars(SchedTick)
  /\ WF_vars(LoopSample(1))
  /\ WF_vars(LoopStep(1))

\* Recurring tasks only, never removed or rescheduled, with intervals of zero,
\* one and two ticks.
RecurIntervals == {0, 1, 2}

NextRecur ==
  \/ SchedTick
  \/ \E id \in TaskIds, at \in 0..MaxSchedTime, interval \in RecurIntervals :
       Every(id, at, interval)
  \/ start(1)
  \/ LoopSample(1)
  \/ LoopStep(1)

SpecRecur == Init /\ [][NextRecur]_vars

\* The scheduler with its worker pool: tasks are added and removed while the
\* loop thread dispatches and the workers run the handlers.
NextPool ==
  \/ SchedTick
  \/ \E id \in TaskIds : OneShot(id, 1)
  \/ \E id \in TaskIds : Every(id, 0, 1)
  \/ \E id \in TaskIds : remove_task(id)
  \/ start(1)
  \/ LoopSample(1)
  \/ LoopStep(1)
  \/ \E w \in Workers : WorkerTake(w)
  \/ \E w \in Workers, outcome \in Outcomes : WorkerDone(w, outcome)

SpecPool == Init /\ [][NextPool]_vars

\* start() and stop() called from several threads, with one recurring task.
NextStart ==
  \/ SchedTick
  \/ \E at \in 0..MaxSchedTime : Every("t1", at, 1)
  \/ \E t \in LoopThreads : start_check(t)
  \/ \E t \in LoopThreads : start_launch(t)
  \/ stop
  \/ \E t \in LoopThreads : LoopSample(t)
  \/ \E t \in LoopThreads : LoopStep(t)

SpecStart == Init /\ [][NextStart]_vars

\* The scheduler started and stopped by one client, with one-shot tasks and
\* recurring tasks whose interval may point backwards; the loop thread and the
\* clock are scheduled fairly.
NextHalt ==
  \/ SchedTick
  \/ \E id \in TaskIds : OneShot(id, 1)
  \/ \E id \in TaskIds, interval \in {-1, 1} : Every(id, 0, interval)
  \/ start(1)
  \/ stop
  \/ LoopSample(1)
  \/ LoopStep(1)

SpecHalt ==
  /\ Init
  /\ [][NextHalt]_vars
  /\ WF_vars(SchedTick)
  /\ WF_vars(LoopSample(1))
  /\ WF_vars(LoopStep(1))

\* The running scheduler with its worker pool: a recurring task t1, whose
\* interval may point backwards, and a one-shot task t2; handlers return, raise
\* or never return.  The loop thread, the clock and the idle workers are
\* scheduled fairly.
NextServe ==
  \/ SchedTick
  \/ OneShot("t2", 1)
  \/ \E interval \in {-1, 1} : Every("t1", 0, interval)
  \/ start(1)
  \/ LoopSample(1)
  \/ LoopStep(1)
  \/ \E w \in Workers : WorkerTake(w)
  \/ \E w \in Workers, outcome \in Outcomes : WorkerDone(w, outcome)

SpecServe ==
  /\ Init
  /\ [][NextServe]_vars
  /\ WF_vars(SchedTick)
  /\ WF_vars(LoopSample(1))
  /\ WF_vars(LoopStep(1))
  /\ WF_vars(\E w \in Workers : WorkerTake(w))

\* The scheduler given whatever a caller may pass for recurring and interval.
Intervals == {None, <<1>>}

NextSubmit ==
  \/ SchedTick
  \/ \E id \in TaskIds, at \in 0..MaxSchedTime, recurring \in BOOLEAN, interval \in Intervals :
       add_task(id, "f", at, 1, "x", recurring, interval)
  \/ \E id \in TaskIds : remove_task(id)
  \/ start(1)
  \/ LoopSample(1)
  \/ LoopStep(1)

SpecSubmit == Init /\ [][NextSubmit]_vars

\* The scheduler with a client that also lists the pending tasks.
NextSnapshot ==
  \/ SchedTick
  \/ \E id \in TaskIds, at \in 0..MaxSchedTime : OneShot(id, at)
  \/ \E id \in TaskIds, at \in 0..MaxSchedTime : Every(id, at, 1)
  \/ \E id \in TaskIds : remove_task(id)
  \/ \E id \in TaskIds, at \in 0..MaxSchedTime : reschedule_task(id, at)
  \/ start(1)
  \/ LoopSample(1)
  \/ LoopStep(1)
  \/ get_pending_tasks

SpecSnapshot == Init /\ [][NextSnapshot]_vars

\* Two caller threads on one resource: requests of either priority and
\* releases, a resource being registered while no call is under way.
ThreadCalls ==
  {Call("request_resources", <<id, GpuOnly(n), p, None>>) :
     id \in AllocIds, n \in 1..MaxTotal, p \in OrderPriorities}
  \cup {Call("release_resources", <<id>>) : id \in AllocIds}

Requesting == {t \in CallerThreads : callers[t].call.op = "request_resources"}

NextThreads ==
  \/ Tick
  \/ \E total \in 1..MaxTotal :
       /\ rlock = NoThread
       /\ register_resource("gpu", total, "units")
  \/ \E t \in CallerThreads, c \in ThreadCalls :
       /\ c.op = "request_resources"
            => Len(pending_requests) + Cardinality(Requesting) < MaxPending
       /\ Invoke(t, c)
  \/ \E t \in CallerThreads : Acquire(t)
  \/ \E t \in CallerThreads : RequestCheck(t)
  \/ \E t \in CallerThreads : RequestFinish(t)
  \/ \E t \in CallerThreads : ReleaseFree(t)
  \/ \E t \in CallerThreads : ReleaseFinish(t)

SpecThreads == Init /\ [][NextThreads]_vars

\* PriorityManager on one task and one context.  The factors are taken in
\* hundredths; 'dependencies' carries min(blocking_count, 5) / 5 or any other
\* fifth; a task whose score falls exactly on a threshold is left out, since
\* there the rounding of the float sum decides its level.
MaxBlocking == 6

Deadlines == {Float(0), Float(50), Float(100), IsoDate(0), IsoDate(5), NoneValue}
Importances == {0, 20, 80, 90}
Efforts == {0, 30, 100}
Dependencies == {20 * k : k \in 0..5}
Preferences == {0, 40, 100}

Thresholds == {2000, 4000, 6000, 8000}

Tasks ==
  {t \in [deadline : Deadlines, importance : Importances, effort : Efforts,
          dependencies : Dependencies, user_preference : Preferences,
          blocking_count : 0..MaxBlocking] :
     priority_score(t) \notin Thresholds}

Contexts ==
  [current_time : {None, <<6>>, <<7>>, <<21>>, <<22>>}, resource_availability : {10, 30}]

InitPriority ==
  /\ InitPlanning
  /\ task_dict \in Tasks
  /\ context \in Contexts
  /\ level = None

NextPriority ==
  \/ Calculate
  \/ Adjust

SpecPriority == InitPriority /\ [][NextPriority]_vars

Spec == SpecAlloc

(***************************************************************************)
(* Properties of the ResourceAllocator                                     *)
(***************************************************************************)
Amt(req, name) == IF name \in DOMAIN req THEN req[name] ELSE 0

RECURSIVE SumGranted(_, _)
SumGranted(g, name) ==
  IF g = <<>> THEN 0 ELSE Amt(Head(g).req, name) + SumGranted(Tail(g), name)

Allocated(name) == resources[name].allocated

\* C1: every registered resource has 0 <= allocated <= total in every state
\* reachable by register, request, release, optimize and shutdown calls.
C1_AllocatedWithinTotal ==
  \A name \in DOMAIN resources :
    0 <= resources[name].allocated /\ resources[name].allocated <= resources[name].total

\* C1 witness: a reprocessing pass has granted a queued request and filled a resource.
C1_Witness ==
  /\ op = "release_resources"
  /\ granted # <<>>
  /\ \E name \in DOMAIN resources : resources[name].allocated = resources[name].total

\* C2: grants are all-or-nothing.  In a request or optimize call every
\* resource's allocated amount rises by exactly the sum of what the requests
\* granted in that call asked of it (nothing when none is granted); in a
\* successful release it falls by what the released id held and rises by exactly
\* what the requests granted by the reprocessing pass asked; a request that
\* returns false has been granted nothing.
C2_AllOrNothing ==
  [][ /\ op' \in {"request_resources", "optimize_allocation"} =>
           \A name \in DOMAIN resources :
             resources'[name].allocated = Allocated(name) + SumGranted(granted', name)
      /\ op' = "request_resources" /\ ~ret' => granted' = <<>>
      /\ op' = "request_resources" /\ ret' => Len(granted') = 1
      /\ \A id \in AllocIds :
           release_resources(id) /\ ret' =>
             \A name \in DOMAIN resources :
               resources'[name].allocated =
                 Allocated(name) - Amt(held[id], name) + SumGranted(granted', name)
    ]_vars

\* C2 witness: a reprocessing pass granted a request naming both resources.
C2_Witness ==
  /\ op = "release_resources"
  /\ \E i \in 1..Len(granted) : DOMAIN granted[i].req = Names

\* C3: a valid request returns true and records its allocation iff every amount
\* is at most the resource's available amount at the call; otherwise it appends
\* exactly one pending entry, allocates nothing and returns false.
C3_RequestGrantedIffAvailable ==
  [][ \A id \in AllocIds, req \in AllocRequirements :
        ( /\ op' = "request_resources"
          /\ \A name \in DOMAIN req : name \in DOMAIN resources /\ req[name] > 0
          /\ request_resources(id, req, 0, None) )
        =>
        IF \A name \in DOMAIN req :
             req[name] <= resources[name].total - resources[name].allocated
        THEN /\ ret'
             /\ HasKey(allocated_resources', id)
             /\ Get(allocated_resources', id) = req
             /\ \A name \in DOMAIN resources :
                  resources'[name].allocated = Allocated(name) + Amt(req, name)
             /\ pending_requests' = pending_requests
        ELSE /\ ~ret'
             /\ Len(pending_requests') = Len(pending_requests) + 1
             /\ SubSeq(pending_requests', 1, Len(pending_requests)) = pending_requests
             /\ pending_requests'[Len(pending_requests')].id = id
             /\ pending_requests'[Len(pending_requests')].requirements = req
             /\ resources' = resources
             /\ allocated_resources' = allocated_resources
    ]_vars

\* C3 witness: a request naming both resources was queued although one of the
\* two amounts was available.
C3_Witness ==
  /\ op = "request_resources"
  /\ ~ret
  /\ pending_requests # <<>>
  /\ LET e == pending_requests[Len(pending_requests)]
     IN /\ DOMAIN e.requirements = Names
        /\ \E name \in Names : e.requirements[name] <= available(resources[name])
        /\ \E name \in Names : e.requirements[name] > available(resources[name])

\* C4: release of an id that holds a grant returns true and lowers each named
\* resource by exactly the amounts of that grant (before the reprocessing pass
\* grants anything); release of an id that holds no grant - in particular a
\* second release with no grant to the id in between - returns false and
\* changes nothing.
C4_ReleaseRestoresGrant ==
  [][ \A id \in AllocIds :
        release_resources(id) =>
          IF id \in DOMAIN held
          THEN /\ ret'
               /\ \A name \in DOMAIN resources :
                    resources'[name].allocated - SumGranted(granted', name) =
                      Allocated(name) - Amt(held[id], name)
               /\ (\A i \in 1..Len(granted') : granted'[i].id # id) =>
                    ~HasKey(allocated_resources', id)
          ELSE /\ ~ret'
               /\ UNCHANGED <<resources, pending_requests, allocated_resources>>
    ]_vars

\* C4 witness: a release gave back everything and left no grant recorded.
C4_Witness ==
  /\ op = "release_resources"
  /\ ret
  /\ granted = <<>>
  /\ allocated_resources = <<>>
  /\ \E name \in DOMAIN resources : resources[name].allocated = 0

\* C5 as stated: A is granted, B is queued, the pass of Release(A) grants
\* nothing to B, and Request(C) then Release(C) make the next pass grant B.
C5_ScenarioAsStated ==
  /\ scen = 2 => ret
  /\ scen = 3 => ~ret /\ \E i \in 1..Len(pending_requests) : pending_requests[i].id = "B"
  /\ scen = 4 => granted = <<>> /\ \E i \in 1..Len(pending_requests) : pending_requests[i].id = "B"
  /\ scen = 6 => \E i \in 1..Len(granted) : granted[i].id = "B"

\* C5 amended: A is granted; B is queued; Release(A) frees both units, so its
\* pass grants B and empties the queue; Request(C) then returns false and C is
\* queued; Release(C) returns false, grants nothing and leaves C queued.
C5_Scenario ==
  /\ scen = 2 => ret /\ resources["gpu"].allocated = 1
  /\ scen = 3 => /\ ~ret
                 /\ Len(pending_requests) = 1
                 /\ pending_requests[1].id = "B"
                 /\ resources["gpu"].allocated = 1
  /\ scen = 4 => /\ ret
                 /\ granted = <<Grant("B", GpuOnly(2))>>
                 /\ pending_requests = <<>>
                 /\ resources["gpu"].allocated = 2
  /\ scen = 5 => /\ ~ret
                 /\ Len(pending_requests) = 1
                 /\ pending_requests[1].id = "C"
  /\ scen = 6 => /\ ~ret
                 /\ granted = <<>>
                 /\ Len(pending_requests) = 1
                 /\ pending_requests[1].id = "C"
                 /\ resources["gpu"].allocated = 2
                 /\ Keys(allocated_resources) = <<"B">>

\* C5 witness: the six calls of the scenario have been made.
C5_Witness == scen = 6 /\ op = "release_resources"

\* The order of the reprocessing pass, stated on the queue before the call:
\* entry i is examined before entry j.
Outranks(i, j) ==
  LET a == pending_requests[i]
      b == pending_requests[j]
  IN \/ a.priority > b.priority
     \/ a.priority = b.priority /\ a.timestamp < b.timestamp
     \/ a.priority = b.priority /\ a.timestamp = b.timestamp /\ i < j

RECURSIVE SumOver(_, _)
SumOver(S, name) ==
  IF S = {} THEN 0
  ELSE LET i == CHOOSE x \in S : TRUE
       IN Amt(pending_requests[i].requirements, name) + SumOver(S \ {i}, name)

InRankOrder(S) ==
  IF S = {} THEN <<>>
  ELSE CHOOSE f \in [1..Cardinality(S) -> S] :
         \A a, b \in 1..Cardinality(S) : a < b => Outranks(f[a], f[b])

\* C6: the pass of a successful release examines the unexpired pending requests
\* once each, higher priority first and earlier enqueue time first among equal
\* priorities, and grants each iff it fits in what is free once the released
\* amounts are back and the requests examined before it and granted are served:
\* of two requests competing for capacity enough for one, the one that outranks
\* the other is granted and the other stays queued.
C6_PassInPriorityOrder ==
  [][ \A id \in QueueIds :
        release_resources(id) /\ ret' =>
          LET live == {i \in 1..Len(pending_requests) :
                         \/ pending_requests[i].timeout = None
                         \/ now - pending_requests[i].timestamp < pending_requests[i].timeout[1]}
              Free(name) == resources[name].total - (Allocated(name) - Amt(held[id], name))
              Fits(i, S) ==
                \A name \in DOMAIN pending_requests[i].requirements :
                  pending_requests[i].requirements[name] <=
                    Free(name) - SumOver({j \in S : Outranks(j, i)}, name)
              won == CHOOSE S \in SUBSET live : \A i \in live : i \in S <=> Fits(i, S)
              wonSeq == InRankOrder(won)
              lostSeq == InRankOrder(live \ won)
          IN /\ granted' = [k \in 1..Len(wonSeq) |->
                              Grant(pending_requests[wonSeq[k]].id,
                                    pending_requests[wonSeq[k]].requirements)]
             /\ pending_requests' = [k \in 1..Len(lostSeq) |-> pending_requests[lostSeq[k]]]
    ]_vars

\* C6 witness: of two queued requests the pass granted one, and the one still
\* queued would have fitted had the other not been served first.
C6_Witness ==
  /\ op = "release_resources"
  /\ ret
  /\ Len(granted) = 1
  /\ Len(pending_requests) = 1
  /\ pending_requests[1].id # granted[1].id
  /\ pending_requests[1].requirements["gpu"] <=
       available(resources["gpu"]) + granted[1].req["gpu"]
  /\ pending_requests[1].requirements["gpu"] > available(resources["gpu"])

\* C7: a request naming an unregistered resource or an amount <= 0 returns
\* false, allocates nothing and queues nothing; a registration of a registered
\* name or of a total <= 0 returns false and leaves every resource as it was.
C7_ValidationFailuresMutateNothing ==
  [][ /\ \A id \in AllocIds, req \in AllocRequirements :
           ( /\ op' = "request_resources"
             /\ \E name \in DOMAIN req : name \notin DOMAIN resources \/ req[name] <= 0
             /\ request_resources(id, req, 0, None) )
           => ~ret' /\ UNCHANGED <<resources, pending_requests, allocated_resources>>
      /\ \A name \in Names, total \in -1..MaxTotal, unit \in Units :
           ( /\ op' = "register_resource"
             /\ name \in DOMAIN resources \/ total <= 0
             /\ register_resource(name, total, unit) )
           => ~ret' /\ UNCHANGED <<resources, pending_requests, allocated_resources>>
    ]_vars

\* C7 witness: a request failed validation while a resource was registered and
\* in use.
C7_Witness ==
  /\ op = "request_resources"
  /\ ~ret
  /\ pending_requests = <<>>
  /\ allocated_resources # <<>>
  /\ \E name \in DOMAIN resources : resources[name].allocated > 0

(***************************************************************************)
(* Properties of the TaskScheduler                                         *)
(***************************************************************************)
Range(q) == {q[i] : i \in 1..Len(q)}

Queued(task_id) == \E e \in Range(task_queue) : e.id = task_id

\* C8: add_task with a registered id returns false and changes neither the
\* registry nor the queue.
C8_DuplicateAddChangesNothing ==
  [][ \A id \in TaskIds, at \in 0..MaxSchedTime :
        ( /\ id \in DOMAIN registered_tasks
          /\ OneShot(id, at) \/ Every(id, at, 1) )
        => ~ret' /\ UNCHANGED <<registered_tasks, task_queue>>
    ]_vars

\* C8 witness: an add was refused while a recurring task was registered and queued.
C8_Witness ==
  /\ op = "add_task"
  /\ ~ret
  /\ \E id \in DOMAIN registered_tasks : registered_tasks[id].recurring /\ Queued(id)

\* C9: a task is never handed to the worker pool before its registered
\* schedule time, and a pass leaves every task that is not yet due queued: a
\* registered entry popped before its time goes to pending_tasks, undispatched,
\* and the end of the pass puts pending_tasks back in the queue.
C9_NeverDispatchedEarly ==
  /\ [](last_dispatch # <<>> => now >= last_dispatch[1].due)
  /\ [][ \A t \in LoopThreads :
           LoopStep(t) =>
             IF task_queue = <<>>
             THEN Range(pending_tasks[t]) \subseteq Range(task_queue') /\ lock' = NoThread
             ELSE LET e == Head(task_queue)
                  IN ( /\ e.id \in DOMAIN registered_tasks
                       /\ registered_tasks[e.id].schedule_time > loop_time[t] )
                     => /\ pending_tasks'[t] = Append(pending_tasks[t], e)
                        /\ last_dispatch' = last_dispatch
       ]_vars

\* C9 witness: a pass has dispatched a task at its schedule time, after time
\* had passed, and left another one, not yet due, in the queue.
C9_Witness ==
  /\ last_dispatch # <<>>
  /\ last_dispatch[1].due = now
  /\ now > 0
  /\ lock = NoThread
  /\ \E e \in Range(task_queue) :
       e.id # last_dispatch[1].id /\ e.task.schedule_time > now

\* C10 as stated: while the scheduler runs, a registered task waiting in the
\* queue and never removed is eventually dispatched (stated of one-shot tasks,
\* which leave the queue only by dispatch or removal).
Waiting(task_id) ==
  /\ task_id \in DOMAIN registered_tasks
  /\ ~registered_tasks[task_id].recurring
  /\ \/ Queued(task_id)
     \/ \E t \in LoopThreads : \E e \in Range(pending_tasks[t]) : e.id = task_id

C10_EveryPendingTaskDispatched ==
  \A id \in TaskIds :
    (is_running /\ Waiting(id)) ~> (~Waiting(id))

\* The order the specification gives for dispatch: higher priority value
\* first, then earlier schedule time.
DispatchedBefore(a, b) ==
  \/ a.task.priority > b.task.priority
  \/ a.task.priority = b.task.priority /\ a.task.schedule_time < b.task.schedule_time

\* C11 as stated: within a pass the due tasks are submitted in (priority
\* descending, schedule time ascending) order, so that a task is never
\* submitted while a registered due task that comes before it in that order is
\* still waiting in the queue of the same pass.
C11_DueDispatchedHighPriorityFirst ==
  [][ \A t \in LoopThreads :
        (LoopStep(t) /\ last_dispatch' # last_dispatch) =>
          \A f \in Range(task_queue) :
            ( /\ f.id # Head(task_queue).id
              /\ f.id \in DOMAIN registered_tasks
              /\ is_due(t, f.task) )
            => ~DispatchedBefore(f, Head(task_queue))
    ]_vars

EntriesOf(q, task_id) == {i \in 1..Len(q) : q[i].id = task_id}

\* What the dispatch of the occurrence at the head of the queue must leave
\* behind for a recurring task: the task registered and queued exactly once,
\* one interval after the occurrence just dispatched, nothing else changed.
ReinsertedOneIntervalLater ==
  LET e == Head(task_queue)
      task == registered_tasks[e.id]
      next_time == task.schedule_time + task.interval[1]
  IN /\ last_dispatch'[1].id = e.id
     /\ last_dispatch'[1].due = task.schedule_time
     /\ e.id \in DOMAIN registered_tasks'
     /\ registered_tasks'[e.id] = [task EXCEPT !.schedule_time = next_time]
     /\ Cardinality(EntriesOf(task_queue', e.id)) = 1
     /\ \A i \in EntriesOf(task_queue', e.id) :
          /\ task_queue'[i].timestamp = timestamp(next_time)
          /\ task_queue'[i].priority = e.priority
          /\ task_queue'[i].task = registered_tasks'[e.id]

\* C12 as stated: every dispatch of a recurring task with an interval I
\* re-inserts it exactly once with schedule time = previous schedule time + I,
\* so that its occurrences are dispatched at s0, s0+I, s0+2I, ... once each.
C12_RecurringReinsertedAtPreviousPlusInterval ==
  [][ \A t \in LoopThreads :
        ( /\ LoopStep(t)
          /\ last_dispatch' # last_dispatch
          /\ registered_tasks[Head(task_queue).id].recurring
          /\ registered_tasks[Head(task_queue).id].interval # None )
        => ReinsertedOneIntervalLater
    ]_vars

\* The same statement for intervals other than zero.
C12_NonZeroIntervalReinserted ==
  [][ \A t \in LoopThreads :
        ( /\ LoopStep(t)
          /\ last_dispatch' # last_dispatch
          /\ registered_tasks[Head(task_queue).id].recurring
          /\ registered_tasks[Head(task_queue).id].interval \notin {None, <<0>>} )
        => ReinsertedOneIntervalLater
    ]_vars

Registered(task_id) == task_id \in DOMAIN registered_tasks

\* A step of the loop thread that hands a task to the worker pool.
DispatchStep == \E t \in LoopThreads : LoopStep(t) /\ last_dispatch' # last_dispatch

\* C13: remove_task of a registered recurring task returns true, leaves the
\* worker pool (queued and running handlers) as it is, and unregisters the id;
\* an id is dispatched only while registered and becomes registered again only
\* through a successful add_task, so no later occurrence is dispatched.
C13_RemoveStopsRecurrence ==
  /\ [][ \A id \in TaskIds :
           (remove_task(id) /\ Registered(id) /\ registered_tasks[id].recurring)
           => /\ ret'
              /\ executor' = executor
              /\ id \notin DOMAIN registered_tasks'
              /\ EntriesOf(task_queue', id) = {}
       ]_vars
  /\ [][ DispatchStep => Registered(last_dispatch'[1].id) ]_vars
  /\ [][ \A id \in TaskIds :
           (~Registered(id) /\ id \in DOMAIN registered_tasks')
           => op' = "add_task" /\ ret'
       ]_vars

\* C13 witness: a recurring task was removed after the dispatch of its first
\* occurrence, while a worker is still running its handler.
C13_Witness ==
  /\ op = "remove_task"
  /\ ret
  /\ last_dispatch # <<>>
  /\ last_dispatch[1].due = 0
  /\ ~Registered(last_dispatch[1].id)
  /\ \E w \in Workers : executor.workers[w] = <<last_dispatch[1].id>>

SetAside == UNION {Range(pending_tasks[t]) : t \in LoopThreads}

\* C14: remove_task of a registered id returns true and deletes the id from
\* the registry and the queue, every other entry staying as it was and in the
\* same order; remove_task of an unregistered id returns false and changes
\* nothing; and every entry a pass can pop belongs to a registered id, so a
\* removed task is never dispatched.
C14_RemovePendingTask ==
  /\ [][ \A id \in TaskIds :
           remove_task(id) =>
             IF Registered(id)
             THEN /\ ret'
                  /\ DOMAIN registered_tasks' = DOMAIN registered_tasks \ {id}
                  /\ \A other \in DOMAIN registered_tasks' :
                       registered_tasks'[other] = registered_tasks[other]
                  /\ task_queue' = SelectSeq(task_queue, LAMBDA e : e.id # id)
                  /\ UNCHANGED <<pending_tasks, last_dispatch, executor, is_running, pc>>
             ELSE /\ ~ret'
                  /\ UNCHANGED svars
       ]_vars
  /\ [](\A e \in Range(task_queue) \cup SetAside : Registered(e.id))

\* C14 witness: a task that was never dispatched has been removed and another
\* task is still in the queue.
C14_Witness ==
  /\ op = "remove_task"
  /\ ret
  /\ last_dispatch = <<>>
  /\ task_queue # <<>>
  /\ \E id \in TaskIds : ~Registered(id)

\* C15 as stated: the dispatch of a non-recurring task destroys it, so that
\* afterwards its id is not registered, remove_task of it returns false and
\* add_task of it returns true.
C15_OneShotUnregisteredByDispatch ==
  /\ [][ (DispatchStep /\ ~registered_tasks[Head(task_queue).id].recurring)
         => ~(Head(task_queue).id \in DOMAIN registered_tasks') ]_vars
  /\ [](\A id \in TaskIds :
          (Registered(id) /\ ~registered_tasks[id].recurring)
          => \E e \in Range(task_queue) \cup SetAside : e.id = id)

\* What a successful reschedule_task(id, new_time) must leave behind.
RescheduledInPlace(id, new_time) ==
  /\ Cardinality(EntriesOf(task_queue', id)) = 1
  /\ \A i \in EntriesOf(task_queue', id) :
       /\ task_queue'[i].timestamp = timestamp(new_time)
       /\ task_queue'[i].task = registered_tasks'[id]
       /\ \E j \in EntriesOf(task_queue, id) : task_queue'[i].priority = task_queue[j].priority
  /\ DOMAIN registered_tasks' = DOMAIN registered_tasks
  /\ registered_tasks'[id] = [registered_tasks[id] EXCEPT !.schedule_time = new_time]
  /\ \A other \in DOMAIN registered_tasks \ {id} :
       registered_tasks'[other] = registered_tasks[other]
  /\ SelectSeq(task_queue', LAMBDA e : e.id # id) = SelectSeq(task_queue, LAMBDA e : e.id # id)

\* C16 as stated: whenever reschedule_task(id, new_time) returns true the task
\* is pending with exactly one queue entry, ordered and registered at new_time,
\* its other fields and every other task unchanged; for an unregistered id it
\* returns false and changes nothing.
C16_RescheduleKeepsOneEntry ==
  [][ \A id \in TaskIds, new_time \in 0..MaxSchedTime :
        reschedule_task(id, new_time) =>
          IF Registered(id)
          THEN ret' /\ RescheduledInPlace(id, new_time)
          ELSE ~ret' /\ UNCHANGED svars
    ]_vars

\* The same statement for a task that has an entry in the queue.
C16_QueuedTaskRescheduled ==
  [][ \A id \in TaskIds, new_time \in 0..MaxSchedTime :
        (reschedule_task(id, new_time) /\ Registered(id) /\ Queued(id))
        => ret' /\ RescheduledInPlace(id, new_time)
    ]_vars

Alive(t) == pc[t] \in {"top", "sampled", "pass"}

\* C17 as stated: under every interleaving of start() and stop() calls at most
\* one loop thread is alive.
C17_AtMostOneLoopThread ==
  Cardinality({t \in LoopThreads : Alive(t)}) <= 1

\* The part of C18 that bounds what a stopped loop thread does: with the flag
\* clear no pass begins (the test at the top of the loop ends the thread), and
\* stop() itself leaves queue and registry alone.
C18_NoPassBeginsAfterStop ==
  /\ [][ \A t \in LoopThreads : (LoopSample(t) /\ ~is_running) => pc'[t] = "dead" ]_vars
  /\ [][ stop => UNCHANGED <<task_queue, registered_tasks>> ]_vars
  /\ [][ \A t \in LoopThreads :
           (pc[t] = "dead" /\ ~(start(t) /\ ~is_running)) => pc'[t] = "dead" ]_vars

\* C18 as stated: once stop() has cleared the flag and start() is not called
\* again, a loop thread finishes at most the pass it is in and then exits,
\* after which nothing is dispatched.
C18_StoppedLoopExits ==
  /\ C18_NoPassBeginsAfterStop
  /\ \A t \in LoopThreads : (~is_running /\ Alive(t)) ~> (is_running \/ ~Alive(t))

Raised == executor.done # None /\ executor.done[1].outcome = "raised"

\* The part of C19 that isolates the handler: the step in which a handler
\* raises changes nothing of the scheduler (queue, registry, flag, lock, loop
\* position), exactly like the step in which it returns.
C19_RaiseLeavesSchedulerAlone ==
  [][ \A w \in Workers, outcome \in Outcomes :
        WorkerDone(w, outcome) =>
          UNCHANGED <<task_queue, registered_tasks, is_running, lock, pc, loop_time,
                      pending_tasks, last_dispatch>>
    ]_vars

\* C19 as stated: after a handler has raised the loop keeps polling (the pass
\* it is in ends and the next one begins) and every other pending task is
\* still dispatched.
C19_LoopSurvivesRaisingHandler ==
  /\ C19_RaiseLeavesSchedulerAlone
  /\ \A t \in LoopThreads : (Raised /\ pc[t] = "pass") ~> (pc[t] = "top")
  /\ \A id \in TaskIds : (Raised /\ is_running /\ Waiting(id)) ~> ~Waiting(id)

Busy(w) == executor.workers[w] # None

\* The part of C20 that keeps the loop from waiting: a loop thread inside a
\* pass, or about to enter one with the lock free, can always take its next
\* step, whatever the workers are doing and however long the pool's queue is;
\* and a queued call is started as long as some worker is idle.
C20_LoopNeverBlockedByPool ==
  /\ [](\A t \in LoopThreads :
          (pc[t] = "pass" /\ lock = t) \/ (pc[t] = "sampled" /\ LockFree)
          => ENABLED LoopStep(t))
  /\ ((executor.queue # <<>> /\ \E w \in Workers : ~Busy(w))
        ~> (executor.queue = <<>> \/ \A w \in Workers : Busy(w)))

\* C20 as stated: whatever the handlers do, the pass completes and releases
\* the lock, even with every worker occupied, and a task that becomes due is
\* still dispatched.
C20_PassCompletesWhateverHandlersDo ==
  /\ C20_LoopNeverBlockedByPool
  /\ \A t \in LoopThreads : (lock = t /\ \A w \in Workers : Busy(w)) ~> (lock = NoThread)
  /\ \A id \in TaskIds :
       (is_running /\ Waiting(id) /\ \E w \in Workers : Busy(w)) ~> ~Waiting(id)

(***************************************************************************)
(* Properties of the pending list of the ResourceAllocator                 *)
(***************************************************************************)
Pending == Range(pending_requests)

\* No request waits while the resources it asks for are available: a request
\* is queued only when it cannot be granted, and the pass that follows every
\* release leaves only requests it could not grant.
NoSatisfiablePending ==
  \A req \in Pending : ~_check_availability(resources, req.requirements)

InTimestampOrder(s) ==
  \A i, j \in 1..Len(s) : i < j => s[i].timestamp <= s[j].timestamp

GrantedNow(req) == \E g \in Range(granted') : g = Grant(req.id, req.requirements)

\* C21 as stated: optimize_allocation(FIRST_COME) examines the pending
\* requests in ascending order of their enqueue timestamps, whatever came
\* before, and of two requests that could each be granted it never grants the
\* later one and leaves the earlier one waiting.
C21_FirstComeExaminesByTimestamp ==
  [][ optimize_allocation("first_come") =>
        /\ InTimestampOrder(pending_requests)
        /\ \A a, b \in Pending :
             ( /\ a.timestamp < b.timestamp
               /\ _check_availability(resources, a.requirements)
               /\ GrantedNow(b) )
             => GrantedNow(a)
    ]_vars

Elapsed(req, current_time) ==
  req.timeout # None /\ current_time - req.timestamp >= req.timeout[1]

NoneExpired(pend, current_time) == \A req \in Range(pend) : ~Elapsed(req, current_time)

\* The part of C22 that holds: expiry is lazy and belongs to the pass of a successful
\* release only.  Time passing removes nothing from the pending list; after a
\* successful release_resources no expired entry remains; request_resources
\* runs no pass, so it keeps every entry already pending, expired or not.
C22_ExpiryOnlyOnRelease ==
  /\ [][ now' # now => UNCHANGED pending_requests ]_vars
  /\ [][ \A id \in QueueIds :
           (release_resources(id) /\ ret') => NoneExpired(pending_requests', now) ]_vars
  /\ [][ (\E id \in QueueIds, n \in 1..MaxTotal, p \in OrderPriorities, timeout \in Timeouts :
            request_resources(id, GpuOnly(n), p, timeout))
         => SubSeq(pending_requests', 1, Len(pending_requests)) = pending_requests ]_vars

\* C22 as stated: after a successful release_resources and after any
\* request_resources call no expired entry remains in the pending list.
C22_NoExpiredAfterReleaseOrRequest ==
  /\ [][ \A id \in QueueIds :
           (release_resources(id) /\ ret') => NoneExpired(pending_requests', now) ]_vars
  /\ [][ (\E id \in QueueIds, n \in 1..MaxTotal, p \in OrderPriorities, timeout \in Timeouts :
            request_resources(id, GpuOnly(n), p, timeout))
         => NoneExpired(pending_requests', now) ]_vars

\* The grants of g in the sequence s, and the pending entries that ask what g
\* gives and whose timeout has not elapsed at current_time.
GrantsOf(s, g) == {i \in 1..Len(s) : s[i] = g}

LiveAsking(pend, g, current_time) ==
  {i \in 1..Len(pend) : /\ Grant(pend[i].id, pend[i].requirements) = g
                        /\ ~Elapsed(pend[i], current_time)}

\* C23: a pending request whose timeout has elapsed is never granted: every
\* grant made by a release and its pass or by an optimization of any strategy
\* goes to a pending request whose enqueue timestamp plus timeout is still
\* ahead, so the grants never outnumber the unexpired entries asking for them.
C23_ExpiredNeverGranted ==
  [][ ((\E id \in QueueIds : release_resources(id)) \/ (\E s \in Strategies : optimize_allocation(s)))
      => \A g \in Range(granted') :
           Cardinality(GrantsOf(granted', g)) <= Cardinality(LiveAsking(pending_requests, g, now)) ]_vars

\* C23 witness: an optimization has just run with an expired request in the
\* pending list and granted nothing, and releasing one of the present
\* allocations would free enough for that request.
C23_Witness ==
  /\ op = "optimize_allocation"
  /\ granted = <<>>
  /\ \E req \in Pending, id \in QueueIds :
       /\ Elapsed(req, now)
       /\ HasKey(allocated_resources, id)
       /\ _check_availability(ReleaseAll(resources, Get(allocated_resources, id)),
                              req.requirements)

\* The score and the thresholds of the specification, in ten-thousandths.
StatedScore(t) ==
  30 * t.deadline.value + 25 * t.importance + 20 * t.effort
  + 300 * Min(t.blocking_count, 5) + 10 * t.user_preference
  + (IF t.deadline.value >= 100 THEN 3000 ELSE 0)
  + (IF t.importance >= 80 THEN 2500 ELSE 0)
  + (IF t.blocking_count > 0 THEN 2000 * Min(t.blocking_count, 5) ELSE 0)

StatedLevel(score) ==
  IF score >= 8000 THEN 4
  ELSE IF score >= 6000 THEN 3
  ELSE IF score >= 4000 THEN 2
  ELSE IF score >= 2000 THEN 1
  ELSE 0

\* A task of the stated input domain: the urgency is a number under
\* 'deadline', and 'dependencies' carries min(blocking_count, 5) / 5.
StatedInput(t) ==
  /\ t.deadline.kind = "float"
  /\ t.dependencies = 20 * Min(t.blocking_count, 5)

\* C24 as stated: for urgency, importance, effort and userPreference in [0,1]
\* and blockingCount >= 0, calculate_priority returns the level the thresholds
\* give for 0.30 urgency + 0.25 importance + 0.20 effort
\* + 0.15 min(blockingCount,5)/5 + 0.10 userPreference plus the three bonuses
\* (+0.30 at urgency >= 1.0, +0.25 at importance >= 0.8,
\* +0.20 min(blockingCount,5) when blockingCount > 0), and no other term.
C24_LevelIsThresholdedStatedScore ==
  (op = "calculate_priority" /\ StatedInput(task_dict))
    => level = Returned(StatedLevel(StatedScore(task_dict)))

\* The tasks that differ from t in one of importance, urgency (a numeric
\* deadline, or a date fewer days ahead), blocking_count or user_preference,
\* that value being larger.
Raisings(t) ==
  {u \in {[t EXCEPT !.importance = v] : v \in {w \in Importances : w > t.importance}}
         \cup {[t EXCEPT !.blocking_count = v] : v \in (t.blocking_count + 1)..MaxBlocking}
         \cup {[t EXCEPT !.user_preference = v] :
                 v \in {w \in Preferences : w > t.user_preference}}
         \cup {[t EXCEPT !.deadline = d] :
                 d \in {e \in Deadlines : /\ e.kind = t.deadline.kind
                                          /\ \/ e.value > t.deadline.value
                                             \/ e.days < t.deadline.days}} :
     priority_score(u) \notin Thresholds}

\* C25: calculate_priority is monotonic: the level it returns for a task is
\* never above the level it returns for the same task with one of importance,
\* urgency, blocking_count or user_preference made larger.
C25_CalculateMonotonic ==
  op = "calculate_priority"
    => \A u \in Raisings(task_dict) : level.value <= calculate_priority(u)

\* C25 witness: calculate_priority has answered for a task of importance 0.2,
\* and the same task at importance 0.9 gets a strictly higher level.
C25_Witness ==
  /\ op = "calculate_priority"
  /\ task_dict.importance = 20
  /\ \E u \in Raisings(task_dict) :
       u.importance = 90 /\ level.value < calculate_priority(u)

\* An adjust_priority_based_on_context call made with an hour has returned.
Adjusted == op = "adjust_priority_based_on_context" /\ context.current_time # None

\* C26: for every task, hour and resource availability the level returned by
\* adjust_priority_based_on_context is a level, never above the level
\* calculate_priority returns for the same task, at most two ordinal steps
\* below it, and never below NONE.
C26_AdjustOnlyLowers ==
  Adjusted =>
    /\ ~level.raised
    /\ level.value <= calculate_priority(task_dict)
    /\ level.value >= calculate_priority(task_dict) - 2
    /\ level.value >= PriorityLevel.NONE

\* C26 witness: an adjustment has returned a level below the task's own.
C26_Witness ==
  /\ Adjusted
  /\ level.value < calculate_priority(task_dict)

\* The two conditions of a context adjustment, and a level lowered by n steps.
NightStep == OffHours(context.current_time) /\ calculate_priority(task_dict) < 4
ScarceStep == context.resource_availability < 30
Lowered(n) == Returned(Max(calculate_priority(task_dict) - n, 0))

\* What holds of C27: a level is lowered by one step when either condition
\* holds, and a CRITICAL level is lowered by scarce resources only.
C27_OneStepForEither ==
  Adjusted => level = Lowered(IF NightStep \/ ScarceStep THEN 1 ELSE 0)

\* C27 as stated: the two adjustments compose: off-hours with a level below
\* CRITICAL and resource availability below 0.3 lower the level by two steps
\* (floored at NONE), one of the two alone lowers it by exactly one, and the
\* off-hours step is never applied to a CRITICAL level.
C27_AdjustmentsCompose ==
  Adjusted =>
    level = Lowered((IF NightStep THEN 1 ELSE 0) + (IF ScarceStep THEN 1 ELSE 0))

\* C28 as stated: in every state every registered task with recurring = true
\* has an interval: none is registered as recurring with interval None.
C28_RecurringHasInterval ==
  \A id \in DOMAIN registered_tasks :
    registered_tasks[id].recurring => registered_tasks[id].interval # None

\* The positions of the queue q that hold the entry e.
Copies(q, e) == {i \in 1..Len(q) : q[i] = e}

\* C29: get_pending_tasks returns exactly the registered tasks that are queued
\* and not yet dispatched, one summary for each queue entry, taken at an
\* instant at which no pass of the loop is under way and no entry is set aside
\* by it, and it leaves the registry and the multiset of queue entries as they
\* were.
C29_SnapshotOfPendingTasks ==
  [][ get_pending_tasks =>
        /\ {r.id : r \in Range(ret')} = {id \in DOMAIN registered_tasks : Queued(id)}
        /\ Len(ret') = Len(task_queue)
        /\ \A i \in 1..Len(ret') : ret'[i] = Summary(task_queue[i])
        /\ lock = NoThread
        /\ \A t \in LoopThreads : pending_tasks[t] = <<>>
        /\ registered_tasks' = registered_tasks
        /\ \A e \in Range(task_queue) \cup Range(task_queue') :
             Cardinality(Copies(task_queue', e)) = Cardinality(Copies(task_queue, e)) ]_vars

\* C29 witness: the loop is running, a listing has just returned a queued task,
\* and another registered task, already dispatched, is not in it.
C29_Witness ==
  /\ op = "get_pending_tasks"
  /\ is_running
  /\ ret # <<>>
  /\ \E id \in DOMAIN registered_tasks : ~Queued(id) /\ \A r \in Range(ret) : r.id # id

\* A caller thread is inside `with self.lock`; a call of it returns in this step.
InSection(t) == callers[t].pc \in {"locked", "checked", "freed"}
Returns(t) == InSection(t) /\ callers'[t].pc = "idle"

\* C30: the allocator's calls are linearizable under concurrent callers.  One
\* thread at most is inside the lock; while it is, no other thread changes the
\* allocator; a call that returns leaves the allocator, and gives the answer
\* and the grants, that the same call run alone would on the state it found
\* when it entered; so a request is granted only if its amounts were available
\* at the instant of its allocation, and two concurrent requests whose sum
\* exceeds the available amount are never both granted.
C30_CallsLinearizable ==
  /\ [](\A t \in CallerThreads : InSection(t) => rlock = t)
  /\ [][ \A t \in CallerThreads :
           (InSection(t) /\ callers'[t] = callers[t])
             => UNCHANGED <<resources, allocated_resources, pending_requests>> ]_vars
  /\ [][ \A t \in CallerThreads :
           Returns(t) =>
             LET alone == Alone(callers[t].call, callers[t].seen, now)
             IN /\ resources' = alone.res
                /\ allocated_resources' = alone.tbl
                /\ pending_requests' = alone.pend
                /\ ret' = alone.ok
                /\ granted' = alone.granted ]_vars
  /\ [][ \A t \in CallerThreads :
           (Returns(t) /\ callers[t].call.op = "request_resources" /\ ret')
             => _check_availability(resources, callers[t].call.args[2]) ]_vars

\* C30 witness: one thread is inside request_resources and has found its
\* amount available, another waits at the lock with a request of its own, and
\* the two amounts together exceed what is available.
C30_Witness ==
  \E t, u \in CallerThreads :
    /\ callers[t].pc = "checked" /\ callers[t].fits
    /\ callers[u].pc = "waiting" /\ callers[u].call.op = "request_resources"
    /\ can_allocate(resources["gpu"], callers[u].call.args[2]["gpu"])
    /\ ~can_allocate(resources["gpu"],
                     callers[t].call.args[2]["gpu"] + callers[u].call.args[2]["gpu"])

\* C31 as stated: adjust_priority_based_on_context returns a level for every
\* context; for a context with no current_time the time-of-day rule is skipped
\* and the resource-availability rule alone is applied.
C31_AdjustNeverRaises ==
  op = "adjust_priority_based_on_context" =>
    /\ ~level.raised
    /\ context.current_time = None
         => level = Lowered(IF ScarceStep THEN 1 ELSE 0)

\* C32 as stated: whatever ids the callers choose, each resource's allocated
\* amount is the sum, over the ids of the recorded-allocation table, of the
\* amount recorded for that resource: no capacity is leaked.
C32_AllocatedIsSumOfRecorded ==
  \A name \in DOMAIN resources :
    resources[name].allocated = SumGranted(allocated_resources, name)

\* The public allocator calls.
AllocatorCalls ==
  {"register_resource", "request_resources", "release_resources", "optimize_allocation"}

\* C33: no lost grant: after every public allocator call returns, every request
\* still in the pending list needs more of at least one resource than is
\* available.
C33_NoLostGrant ==
  op \in AllocatorCalls =>
    \A req \in Pending :
      \E name \in DOMAIN req.requirements :
        req.requirements[name] > available(resources[name])

\* C33 witness: a release has freed capacity, its pass has granted a queued
\* request out of it, and a request is still queued behind it.
C33_Witness ==
  /\ op = "release_resources"
  /\ ret
  /\ granted # <<>>
  /\ Pending # {}
  /\ \E name \in DOMAIN resources : available(resources[name]) > 0

\* C34 as stated: after shutdown returns, from any state, every resource has
\* allocated = 0, the recorded-allocation table is empty and the pending list
\* is empty.
C34_ShutdownReleasesEverything ==
  op = "shutdown" =>
    /\ \A name \in DOMAIN resources : resources[name].allocated = 0
    /\ allocated_resources = <<>>
    /\ pending_requests = <<>>

\* C35: whenever the scheduler lock is free, every entry of the task queue has
\* an id of the registry and carries the very task the registry holds under
\* that id, and no id has more than one entry.
C35_QueueMatchesRegistry ==
  lock = NoThread =>
    \A i \in 1..Len(task_queue) :
      /\ task_queue[i].id \in DOMAIN registered_tasks
      /\ task_queue[i].task = registered_tasks[task_queue[i].id]
      /\ \A j \in 1..Len(task_queue) : j # i => task_queue[j].id # task_queue[i].id

\* C35 witness: a queued task has just been rescheduled to another time while
\* the loop runs and a second task is queued.
C35_Witness ==
  /\ op = "reschedule_task"
  /\ ret
  /\ is_running
  /\ lock = NoThread
  /\ Len(task_queue) = 2
  /\ \E e \in Range(task_queue) : e.task.schedule_time # now /\ e.task.recurring

\* C36 as stated: every polling pass ends and leaves the scheduler lock after
\* finitely many steps, whatever the registered tasks and their intervals, so
\* the lock a pass holds is always free again later for add_task, remove_task
\* and reschedule_task.
C36_EveryPassReleasesLock == (lock # NoThread) ~> (lock = NoThread)

\* A registered non-recurring task with no entry left: it has been dispatched.
Spent(task_id) ==
  /\ Registered(task_id)
  /\ ~registered_tasks[task_id].recurring
  /\ ~Waiting(task_id)

\* C37: a non-recurring task is dispatched at most once between its add_task
\* and a later remove_task: its dispatch takes its only entry out of the
\* queue, and as long as it stays registered no call and no pass gives it an
\* entry again (reschedule_task after the dispatch included).
C37_OneShotDispatchedAtMostOnce ==
  /\ [][ (DispatchStep /\ ~registered_tasks[Head(task_queue).id].recurring)
         => /\ Waiting(Head(task_queue).id)
            /\ \A e \in Range(task_queue') \cup UNION {Range(pending_tasks'[t]) : t \in LoopThreads} :
                 e.id # Head(task_queue).id ]_vars
  /\ [][ \A id \in TaskIds :
           (Spent(id) /\ id \in DOMAIN registered_tasks')
             => \A e \in Range(task_queue') \cup UNION {Range(pending_tasks'[t]) : t \in LoopThreads} :
                  e.id # id ]_vars

\* C37 witness: a non-recurring task was dispatched, reschedule_task of it has
\* then returned true with another time, and it has no entry.
C37_Witness ==
  /\ op = "reschedule_task"
  /\ ret
  /\ last_dispatch # <<>>
  /\ Spent(last_dispatch[1].id)
  /\ registered_tasks[last_dispatch[1].id].schedule_time > last_dispatch[1].due

\* The step that ends a pass: the queue is drained, the set-aside entries go
\* back and the lock is released.
PassEnd(t) == LoopStep(t) /\ task_queue = <<>>

\* A turn of the pass that finds at the head of the queue a registered
\* recurring task with a positive interval whose schedule time has come.
CatchUpTurn(t) ==
  /\ LoopStep(t)
  /\ task_queue # <<>>
  /\ Head(task_queue).id \in DOMAIN registered_tasks
  /\ Head(task_queue).task.recurring
  /\ Head(task_queue).task.interval # None
  /\ Head(task_queue).task.interval[1] > 0
  /\ Head(task_queue).task.schedule_time <= loop_time[t]

\* C38: catch-up within one pass.  A pass with sampled time T ends with no
\* registered task of schedule time <= T in the queue; every turn that finds a
\* due recurring task with a positive interval submits it without waiting for
\* the pool, and queues its next occurrence, one interval later, inside the
\* same pass (the lock is kept), so that an occurrence k intervals before T
\* is followed by k more dispatches before the pass ends.
C38_CatchUpWithinOnePass ==
  /\ [][ \A t \in LoopThreads :
           PassEnd(t) =>
             \A e \in Range(task_queue') :
               e.id \in DOMAIN registered_tasks'
                 => /\ e.task.schedule_time > loop_time[t]
                    /\ registered_tasks'[e.id].schedule_time > loop_time[t] ]_vars
  /\ [][ \A t \in LoopThreads :
           CatchUpTurn(t) =>
             /\ lock' = t
             /\ last_dispatch' # last_dispatch
             /\ last_dispatch'[1].id = Head(task_queue).id
             /\ last_dispatch'[1].due = Head(task_queue).task.schedule_time
             /\ executor'.workers = executor.workers
             /\ registered_tasks'[Head(task_queue).id].schedule_time =
                  Head(task_queue).task.schedule_time + Head(task_queue).task.interval[1]
             /\ \E e \in Range(task_queue') :
                  /\ e.id = Head(task_queue).id
                  /\ e.task = registered_tasks'[e.id] ]_vars

\* C38 witness: inside a pass an occurrence that was due before the sampled
\* time has been dispatched, its next occurrence is queued and due in the same
\* pass, and an earlier execution of the task is still running in the pool.
C38_Witness ==
  \E t \in LoopThreads :
    /\ lock = t
    /\ pc[t] = "pass"
    /\ last_dispatch # <<>>
    /\ last_dispatch[1].due < loop_time[t]
    /\ Registered(last_dispatch[1].id)
    /\ registered_tasks[last_dispatch[1].id].schedule_time = last_dispatch[1].due + 1
    /\ registered_tasks[last_dispatch[1].id].schedule_time <= loop_time[t]
    /\ Queued(last_dispatch[1].id)
    /\ \E w \in Workers : executor.workers[w] = <<last_dispatch[1].id>>

\* The score of a task whose deadline is a date string, as the rules and the
\* other four weighted factors give it, in ten-thousandths.
DatedScore(t) ==
  25 * t.importance + 20 * t.effort + 15 * t.dependencies + 10 * t.user_preference
  + (IF t.deadline.days <= 1 THEN 3000 ELSE IF t.deadline.days <= 3 THEN 1500 ELSE 0)
  + (IF t.importance >= 80 THEN 2500 ELSE 0)
  + (IF t.blocking_count > 0 THEN 2000 * Min(t.blocking_count, 5) ELSE 0)
  + 15 * t.user_preference

\* C39: for a task whose deadline is an ISO date string, calculate_priority
\* returns the level of the weighted score of the other factors plus the
\* rule bonuses, the urgent-deadline bonus (+0.30 at most one day ahead,
\* +0.15 at most three days ahead) among them, and not the fallback MEDIUM.
C39_DatedDeadlineGetsUrgencyBonus ==
  (op = "calculate_priority" /\ task_dict.deadline.kind = "str")
    => level = Returned(StatedLevel(DatedScore(task_dict)))
====
